---- MODULE Spec2Model ----
(***************************************************************************)
(* A model of the group-manager bot of src/bot.py: the admin resolver with *)
(* its TTL cache, the command gate, the warning ledger, the antiflood      *)
(* buckets and the moderation pipeline.                                    *)
(*                                                                         *)
(* Updates are processed one at a time: main() builds the Application      *)
(* without concurrent_updates and registers every handler with the default *)
(* block=True, so the dispatcher awaits the handlers of one update before  *)
(* it takes the next update from the queue.  One action of the model is    *)
(* therefore one whole update; the outcome of every awaited platform call  *)
(* (administrator listing, reply, ban, mute, delete) is an input of the    *)
(* action, drawn with \E.                                                  *)
(***************************************************************************)
EXTENDS Integers, Sequences, FiniteSets, TLC

\* ------------------------------------------------------------------ config
OWNER_ID == "owner"
Users == {OWNER_ID, "alice", "bob"}
Groups == {"g1", "g2"}
PrivateChats == {"pm"}
Chats == Groups \cup PrivateChats

ADMIN_CACHE_TTL == 600
FLOOD_BUCKET_MAXLEN == 20
warn_limit == 4
DEFAULT_flood_limit == 6
DEFAULT_flood_window_sec == 8
DEFAULT_flood_action_mute_sec == 60

\* ------------------------------------------------------------------ bounds
\* Clock steps a run takes under each specification.
MaxCmdTicks == 2
MaxAdminTicks == 3
\* Timestamps a bucket holds before its user stops sending (admin-cache runs).
MaxAdminBurst == 1
MaxFloodTicks == 1
\* Largest flood_window_sec a flood run is configured with.
MaxFloodWindow == 1
MaxResolveTicks == 3
MaxPipeTicks == 2
\* Timestamps a bucket holds before its user stops sending (pipeline runs).
MaxPipeBurst == 3
\* Updates in the update queue of a dispatch run.
MaxTasks == 4

\* ------------------------------------------------------------------ state
VARIABLES
    now,            \* time.time(), in seconds
    ADMIN_CACHE,    \* chat -> cache entry
    chat_settings,  \* chat -> row of table chat_settings
    FLOOD_BUCKETS,  \* <<chat, user>> -> sequence of timestamps (deque, maxlen 20)
    warnings,       \* <<chat, user>> -> count column of table warnings (0: no row)
    blocklist,      \* chat -> phrases of table blocklist
    banned,         \* the platform's set of banned <<chat, user>>
    appended,       \* history: <<chat, user>> -> timestamps ever appended to the bucket
    obs,            \* what the last processed update did
    tasks           \* dispatch runs: the updates of the queue and their handlers

vars == <<now, ADMIN_CACHE, chat_settings, FLOOD_BUCKETS, warnings, blocklist, banned,
          appended, obs, tasks>>

\* ADMIN_CACHE.get(chat_id) is None
NoEntry == [present |-> FALSE, ids |-> {}, ts |-> 0]

\* The lists context.bot.get_chat_administrators can return, and its failure.
AdminLists == {{}, {"alice"}, {"alice", "bob"}, {OWNER_ID, "alice"}}
FetchOutcomes ==
    [ok : {TRUE}, admins : AdminLists] \cup [ok : {FALSE}, admins : {{}}]

ChatType(chat) == IF chat \in Groups THEN "group" ELSE "private"

is_group(chat) == ChatType(chat) = "group"

is_owner(user_id) == user_id = OWNER_ID

\* ---------------------------------------------------------- admin resolver
\* One call of get_admin_ids, as observed: the entry it found, the time it
\* read, what the fetch did ("none": no fetch was made) and what it returned.
NoCheck ==
    [made |-> FALSE, chat |-> "g1", user |-> OWNER_ID, entry |-> NoEntry, at |-> 0,
     fetch |-> "none", fetched |-> {}, ids |-> {}, res |-> TRUE]

Mut_refresh_keeps_ts(cache, chat_id, t, admins) ==
    [cache EXCEPT ![chat_id] = [present |-> TRUE, ids |-> admins, ts |-> @.ts]]

refresh_admin_cache(cache, chat_id, t, admins) ==
    [cache EXCEPT ![chat_id] = [present |-> TRUE, ids |-> admins, ts |-> t]]

Mut_get_admin_ids_le(cache, chat_id, t, f) ==
    LET cached == cache[chat_id] IN
    IF cached.present /\ (t - cached.ts) <= ADMIN_CACHE_TTL
    THEN [ids |-> cached.ids, cache |-> cache, fetch |-> "none", fetched |-> {}]
    ELSE IF f.ok
    THEN [ids |-> f.admins, cache |-> refresh_admin_cache(cache, chat_id, t, f.admins),
          fetch |-> "ok", fetched |-> f.admins]
    ELSE [ids |-> IF cached.present THEN cached.ids ELSE {}, cache |-> cache,
          fetch |-> "fail", fetched |-> {}]

Mut_get_admin_ids_fail_closed(cache, chat_id, t, f) ==
    LET cached == cache[chat_id] IN
    IF cached.present /\ (t - cached.ts) < ADMIN_CACHE_TTL
    THEN [ids |-> cached.ids, cache |-> cache, fetch |-> "none", fetched |-> {}]
    ELSE IF f.ok
    THEN [ids |-> f.admins, cache |-> refresh_admin_cache(cache, chat_id, t, f.admins),
          fetch |-> "ok", fetched |-> f.admins]
    ELSE [ids |-> {}, cache |-> cache, fetch |-> "fail", fetched |-> {}]

Mut_get_admin_ids_caches_failure(cache, chat_id, t, f) ==
    LET cached == cache[chat_id] IN
    IF cached.present /\ (t - cached.ts) < ADMIN_CACHE_TTL
    THEN [ids |-> cached.ids, cache |-> cache, fetch |-> "none", fetched |-> {}]
    ELSE IF f.ok
    THEN [ids |-> f.admins, cache |-> refresh_admin_cache(cache, chat_id, t, f.admins),
          fetch |-> "ok", fetched |-> f.admins]
    ELSE [ids |-> IF cached.present THEN cached.ids ELSE {},
          cache |-> IF cached.present THEN cache
                    ELSE refresh_admin_cache(cache, chat_id, t, {}),
          fetch |-> "fail", fetched |-> {}]

get_admin_ids(cache, chat_id, t, f) ==
    LET cached == cache[chat_id] IN
    IF cached.present /\ (t - cached.ts) < ADMIN_CACHE_TTL
    THEN [ids |-> cached.ids, cache |-> cache, fetch |-> "none", fetched |-> {}]
    ELSE IF f.ok
    THEN [ids |-> f.admins, cache |-> refresh_admin_cache(cache, chat_id, t, f.admins),
          fetch |-> "ok", fetched |-> f.admins]
    ELSE [ids |-> IF cached.present THEN cached.ids ELSE {}, cache |-> cache,
          fetch |-> "fail", fetched |-> {}]

Mut_is_group_admin_no_fast_path(cache, chat_id, user_id, t, f) ==
    LET r == get_admin_ids(cache, chat_id, t, f) IN
    [res |-> user_id \in r.ids, cache |-> r.cache,
     check |-> [made |-> TRUE, chat |-> chat_id, user |-> user_id,
                entry |-> cache[chat_id], at |-> t, fetch |-> r.fetch,
                fetched |-> r.fetched, ids |-> r.ids, res |-> user_id \in r.ids]]

\* is_group_admin: the verdict, the cache afterwards and the lookup it made.
is_group_admin(cache, chat_id, user_id, t, f) ==
    IF is_owner(user_id)
    THEN [res |-> TRUE, cache |-> cache, check |-> NoCheck]
    ELSE IF ChatType(chat_id) = "private"
    THEN [res |-> TRUE, cache |-> cache, check |-> NoCheck]
    ELSE LET r == get_admin_ids(cache, chat_id, t, f) IN
         [res |-> user_id \in r.ids, cache |-> r.cache,
          check |-> [made |-> TRUE, chat |-> chat_id, user |-> user_id,
                     entry |-> cache[chat_id], at |-> t, fetch |-> r.fetch,
                     fetched |-> r.fetched, ids |-> r.ids, res |-> user_id \in r.ids]]

\* ------------------------------------------------------------ observation
NoTarget == "none"

NoObs ==
    [kind |-> "init", chat |-> "g1", user |-> OWNER_ID, cmd |-> "", target |-> NoTarget,
     gate |-> "none", replied |-> FALSE, handler |-> "none",
     check |-> NoCheck, check2 |-> NoCheck,
     countBefore |-> 0, count |-> 0, escalated |-> FALSE, reset |-> FALSE,
     banAttempts |-> 0, banOk |-> FALSE, listFetch |-> FALSE,
     enabled |-> 0, floodRan |-> FALSE, flood |-> FALSE, recorded |-> FALSE,
     mutes |-> 0, filterRan |-> FALSE, flagged |-> FALSE, reason |-> "none",
     deletes |-> 0, toggled |-> "", verdict |-> FALSE, fetchOk |-> FALSE,
     listed |-> {}, consulted |-> FALSE, muteOk |-> TRUE, delOk |-> TRUE,
     muted |-> FALSE, deleted |-> FALSE, text |-> <<>>,
     read |-> FALSE, row |-> <<>>, parts |-> <<>>, minutes |-> 0, unmutes |-> 0,
     unbans |-> 0, stored |-> {}]

\* ------------------------------------------------------------ command gate
AllowedForAll == {"admin", "info", "help", "start"}

\* group_command_gate on a command whose extracted name is cmd: "return" lets
\* the update on, "stop" is ApplicationHandlerStop, "raise" is the exception of
\* a reply_text that failed.
Mut_gate_checks_all(cache, chat_id, user_id, cmd, t, f, replyOk) ==
    IF ~is_group(chat_id)
    THEN [outcome |-> "return", cache |-> cache, check |-> NoCheck, replied |-> FALSE]
    ELSE LET a == is_group_admin(cache, chat_id, user_id, t, f) IN
         IF a.res \/ cmd \in AllowedForAll
         THEN [outcome |-> "return", cache |-> a.cache, check |-> a.check,
               replied |-> FALSE]
         ELSE [outcome |-> IF replyOk THEN "stop" ELSE "raise",
               cache |-> a.cache, check |-> a.check, replied |-> TRUE]

group_command_gate(cache, chat_id, user_id, cmd, t, f, replyOk) ==
    IF ~is_group(chat_id)
    THEN [outcome |-> "return", cache |-> cache, check |-> NoCheck, replied |-> FALSE]
    ELSE IF cmd \in AllowedForAll
    THEN [outcome |-> "return", cache |-> cache, check |-> NoCheck, replied |-> FALSE]
    ELSE LET a == is_group_admin(cache, chat_id, user_id, t, f) IN
         IF a.res
         THEN [outcome |-> "return", cache |-> a.cache, check |-> a.check,
               replied |-> FALSE]
         ELSE [outcome |-> IF replyOk THEN "stop" ELSE "raise",
               cache |-> a.cache, check |-> a.check, replied |-> TRUE]

\* The dispatcher over the handler groups main() registers: the gate in group
\* -1, the command handlers in group 0.  ApplicationHandlerStop ends the
\* update; any other exception of a handler goes to the error handlers, and
\* main() registers none, so the next group still runs.
RunsNextGroup(outcome) == outcome # "stop"

\* The message handler of group -1 matches commands of group chats only.
GateApplies(chat_id) == is_group(chat_id)

\* ---------------------------------------------------------- warning ledger
get_warn_count(w, chat_id, user_id) == w[<<chat_id, user_id>>]

set_warn_count(w, chat_id, user_id, count) == [w EXCEPT ![<<chat_id, user_id>>] = count]

reset_warns(w, chat_id, user_id) == [w EXCEPT ![<<chat_id, user_id>>] = 0]

\* cmd_warn: the ledger afterwards, the count it computed, and the ban it tried.
Mut_cmd_warn_no_reset(w, chat_id, target) ==
    IF ~is_group(chat_id) \/ target = NoTarget
    THEN [warnings |-> w, count |-> 0, escalated |-> FALSE, reset |-> FALSE,
          banAttempts |-> 0]
    ELSE LET count == get_warn_count(w, chat_id, target) + 1
             w1 == set_warn_count(w, chat_id, target, count)
         IN  [warnings |-> w1, count |-> count, escalated |-> count >= warn_limit,
              reset |-> FALSE, banAttempts |-> IF count >= warn_limit THEN 1 ELSE 0]

Mut_cmd_warn_stale_count(w, chat_id, target) ==
    IF ~is_group(chat_id) \/ target = NoTarget
    THEN [warnings |-> w, count |-> 0, escalated |-> FALSE, reset |-> FALSE,
          banAttempts |-> 0]
    ELSE LET count == IF get_warn_count(w, chat_id, target) > 0
                      THEN get_warn_count(w, chat_id, target)
                      ELSE 1
             w1 == set_warn_count(w, chat_id, target, count)
         IN  IF count >= warn_limit
             THEN [warnings |-> reset_warns(w1, chat_id, target), count |-> count,
                   escalated |-> TRUE, reset |-> TRUE, banAttempts |-> 1]
             ELSE [warnings |-> w1, count |-> count, escalated |-> FALSE,
                   reset |-> FALSE, banAttempts |-> 0]

cmd_warn(w, chat_id, target) ==
    IF ~is_group(chat_id) \/ target = NoTarget
    THEN [warnings |-> w, count |-> 0, escalated |-> FALSE, reset |-> FALSE,
          banAttempts |-> 0]
    ELSE LET count == get_warn_count(w, chat_id, target) + 1
             w1 == set_warn_count(w, chat_id, target, count)
         IN  IF count >= warn_limit
             THEN [warnings |-> reset_warns(w1, chat_id, target), count |-> count,
                   escalated |-> TRUE, reset |-> TRUE, banAttempts |-> 1]
             ELSE [warnings |-> w1, count |-> count, escalated |-> FALSE,
                   reset |-> FALSE, banAttempts |-> 0]

cmd_resetwarns(w, chat_id, target) ==
    IF target = NoTarget THEN w ELSE reset_warns(w, chat_id, target)

\* cmd_ban: one ban_chat_member call when the message replies to a user.
cmd_ban_attempts(target) == IF target = NoTarget THEN 0 ELSE 1

\* context.bot.ban_chat_member: the platform's banned set after n attempts on
\* target with outcome ok.
ban_chat_member(b, chat_id, target, n, ok) ==
    IF n > 0 /\ ok THEN b \cup {<<chat_id, target>>} ELSE b

\* parse_reason_and_arg on the parts of text.split(maxsplit=2): the argument
\* and the reason.
parse_reason_and_arg(parts) ==
    IF Len(parts) <= 1 THEN <<<<>>, <<>>>>
    ELSE IF Len(parts) = 2 THEN <<parts[2], <<>>>>
    ELSE <<parts[2], parts[3]>>

Digits == <<"0", "1", "2", "3", "4", "5", "6", "7", "8", "9">>

IsDigit(ch) == \E i \in 1..Len(Digits) : Digits[i] = ch

digit_value(ch) == (CHOOSE i \in 1..Len(Digits) : Digits[i] = ch) - 1

RECURSIVE digits_value(_)
digits_value(tok) ==
    IF tok = <<>> THEN 0
    ELSE 10 * digits_value(SubSeq(tok, 1, Len(tok) - 1)) + digit_value(tok[Len(tok)])

\* int(arg) on a token of digits with an optional sign; ok is FALSE where
\* int raises ValueError.
int_parse(tok) ==
    LET signed == tok # <<>> /\ tok[1] \in {"-", "+"}
        body == IF signed THEN Tail(tok) ELSE tok
    IN  IF body # <<>> /\ \A i \in 1..Len(body) : IsDigit(body[i])
        THEN [ok |-> TRUE,
              value |-> IF signed /\ tok[1] = "-" THEN 0 - digits_value(body)
                        ELSE digits_value(body)]
        ELSE [ok |-> FALSE, value |-> 0]

DEFAULT_mute_minutes == 10

\* cmd_mute: the restrict_chat_member calls it makes and the minutes it mutes
\* for; an argument int() rejects counts as absent.
cmd_mute(target, parts) ==
    IF target = NoTarget
    THEN [mutes |-> 0, minutes |-> 0]
    ELSE LET arg == parse_reason_and_arg(parts)[1]
             p == IF arg # <<>> THEN int_parse(arg)
                  ELSE [ok |-> TRUE, value |-> DEFAULT_mute_minutes]
         IN  [mutes |-> 1, minutes |-> IF p.ok THEN p.value ELSE DEFAULT_mute_minutes]

\* cmd_unmute, cmd_unban: one platform call when the message replies to a user.
cmd_unmute_attempts(target) == IF target = NoTarget THEN 0 ELSE 1

cmd_unban_attempts(target) == IF target = NoTarget THEN 0 ELSE 1

\* cmd_admin: whether it fetched the administrators (in a group it always
\* does, past the cache), and the ids of the listing it composed: one line per
\* administrator the platform returned.
cmd_admin(chat_id, f) ==
    IF ~is_group(chat_id)
    THEN [fetch |-> FALSE, listed |-> {}]
    ELSE IF f.ok
    THEN [fetch |-> TRUE, listed |-> f.admins]
    ELSE [fetch |-> TRUE, listed |-> {}]

\* ----------------------------------------------------------- settings store
\* A row of chat_settings with the column defaults of init_db.
DefaultRow ==
    [exists |-> TRUE,
     antiflood_enabled |-> 1,
     flood_limit |-> DEFAULT_flood_limit,
     flood_window_sec |-> DEFAULT_flood_window_sec,
     flood_action_mute_sec |-> DEFAULT_flood_action_mute_sec,
     link_lock_enabled |-> 0,
     blocklist_enabled |-> 1,
     greetings_enabled |-> 1,
     clean_commands_enabled |-> 0]

NoRow == [DefaultRow EXCEPT !.exists = FALSE]

Columns == DOMAIN DefaultRow \ {"exists"}

Mut_ensure_chat_row_replace(cs, chat_id) == [cs EXCEPT ![chat_id] = DefaultRow]

ensure_chat_row(cs, chat_id) ==
    IF cs[chat_id].exists THEN cs ELSE [cs EXCEPT ![chat_id] = DefaultRow]

\* get_settings creates the row it reads: the table after the call; the row
\* returned is get_settings(cs, chat_id)[chat_id].
get_settings(cs, chat_id) == ensure_chat_row(cs, chat_id)

set_setting(cs, chat_id, key, value) ==
    [ensure_chat_row(cs, chat_id) EXCEPT ![chat_id][key] = value]

\* The toggles of settings_keyboard.
BooleanToggles ==
    {"antiflood_enabled", "link_lock_enabled", "blocklist_enabled", "greetings_enabled",
     "clean_commands_enabled"}

\* The values of the columns of a row, as the dict get_settings returns
\* (welcome_text left out).
RowValues(r) ==
    <<r.antiflood_enabled, r.flood_limit, r.flood_window_sec, r.flood_action_mute_sec,
      r.link_lock_enabled, r.blocklist_enabled, r.greetings_enabled,
      r.clean_commands_enabled>>

\* on_settings_click with callback data "tog:<key>": s[key] of a key that is
\* no column raises KeyError after get_settings created the row.
on_settings_click(cs, chat_id, key) ==
    LET cs1 == get_settings(cs, chat_id) IN
    IF key \in Columns
    THEN set_setting(cs1, chat_id, key, IF cs1[chat_id][key] # 0 THEN 0 ELSE 1)
    ELSE cs1

\* ------------------------------------------------------------- antiflood
Mut_bucket_append_drops_newest(bucket, t) ==
    IF Len(bucket) >= FLOOD_BUCKET_MAXLEN THEN bucket ELSE Append(bucket, t)

\* deque(maxlen=20).append
bucket_append(bucket, t) ==
    LET b == Append(bucket, t) IN
    IF Len(b) > FLOOD_BUCKET_MAXLEN THEN Tail(b) ELSE b

\* sum(1 for t in bucket if now - t <= window)
count_in_window(bucket, t, window) ==
    Cardinality({i \in 1..Len(bucket) : t - bucket[i] <= window})

SkipFlood(cs, cache, buckets, enabled, check) ==
    [res |-> FALSE, settings |-> cs, cache |-> cache, buckets |-> buckets,
     enabled |-> enabled, check |-> check, recorded |-> FALSE, count |-> 0,
     mutes |-> 0, muted |-> FALSE, deletes |-> 0, deleted |-> FALSE]

\* The enforcement of an exceeded limit: restrict_chat_member in one try block,
\* then delete_message in a second one; muteOk and delOk are the outcomes of
\* the two calls, and an exception of either is passed over.
Mut_flood_enforce_one_try(muteOk, delOk) ==
    [mutes |-> 1, muted |-> muteOk,
     deletes |-> IF muteOk THEN 1 ELSE 0, deleted |-> muteOk /\ delOk]

flood_enforce(muteOk, delOk) ==
    [mutes |-> 1, muted |-> muteOk, deletes |-> 1, deleted |-> delOk]

NoEnforce == [mutes |-> 0, muted |-> FALSE, deletes |-> 0, deleted |-> FALSE]

Mut_antiflood_records_first(cs, cache, buckets, chat_id, user_id, t, f, muteOk, delOk) ==
    LET cs1 == get_settings(cs, chat_id)
        s == cs1[chat_id]
        key == <<chat_id, user_id>>
        bucket == bucket_append(buckets[key], t)
        b1 == [buckets EXCEPT ![key] = bucket]
        a == is_group_admin(cache, chat_id, user_id, t, f)
        count == count_in_window(bucket, t, s.flood_window_sec)
        exceeded == count >= s.flood_limit
        e == IF exceeded THEN flood_enforce(muteOk, delOk) ELSE NoEnforce
    IN  IF s.antiflood_enabled = 0 \/ a.res
        THEN [SkipFlood(cs1, a.cache, b1, s.antiflood_enabled, a.check)
                EXCEPT !.recorded = TRUE]
        ELSE [res |-> exceeded, settings |-> cs1, cache |-> a.cache, buckets |-> b1,
              enabled |-> s.antiflood_enabled, check |-> a.check, recorded |-> TRUE,
              count |-> count,
              mutes |-> e.mutes, muted |-> e.muted,
              deletes |-> e.deletes, deleted |-> e.deleted]

Mut_antiflood_gt(cs, cache, buckets, chat_id, user_id, t, f, muteOk, delOk) ==
    LET cs1 == get_settings(cs, chat_id)
        s == cs1[chat_id]
    IN  IF s.antiflood_enabled = 0
        THEN SkipFlood(cs1, cache, buckets, s.antiflood_enabled, NoCheck)
        ELSE LET a == is_group_admin(cache, chat_id, user_id, t, f) IN
             IF a.res
             THEN SkipFlood(cs1, a.cache, buckets, s.antiflood_enabled, a.check)
             ELSE LET key == <<chat_id, user_id>>
                      bucket == bucket_append(buckets[key], t)
                      count == count_in_window(bucket, t, s.flood_window_sec)
                      exceeded == count > s.flood_limit
                      e == IF exceeded THEN flood_enforce(muteOk, delOk) ELSE NoEnforce
                  IN  [res |-> exceeded, settings |-> cs1, cache |-> a.cache,
                       buckets |-> [buckets EXCEPT ![key] = bucket],
                       enabled |-> s.antiflood_enabled, check |-> a.check,
                       recorded |-> TRUE, count |-> count,
                       mutes |-> e.mutes, muted |-> e.muted,
                       deletes |-> e.deletes, deleted |-> e.deleted]

Mut_antiflood_no_return(cs, cache, buckets, chat_id, user_id, t, f, muteOk, delOk) ==
    LET cs1 == get_settings(cs, chat_id)
        s == cs1[chat_id]
    IN  IF s.antiflood_enabled = 0
        THEN SkipFlood(cs1, cache, buckets, s.antiflood_enabled, NoCheck)
        ELSE LET a == is_group_admin(cache, chat_id, user_id, t, f) IN
             IF a.res
             THEN SkipFlood(cs1, a.cache, buckets, s.antiflood_enabled, a.check)
             ELSE LET key == <<chat_id, user_id>>
                      bucket == bucket_append(buckets[key], t)
                      count == count_in_window(bucket, t, s.flood_window_sec)
                      exceeded == count >= s.flood_limit
                      e == IF exceeded THEN flood_enforce(muteOk, delOk) ELSE NoEnforce
                  IN  [res |-> FALSE, settings |-> cs1, cache |-> a.cache,
                       buckets |-> [buckets EXCEPT ![key] = bucket],
                       enabled |-> s.antiflood_enabled, check |-> a.check,
                       recorded |-> TRUE, count |-> count,
                       mutes |-> e.mutes, muted |-> e.muted,
                       deletes |-> e.deletes, deleted |-> e.deleted]

\* antiflood_check: its answer, the tables and caches afterwards, the count it
\* compared with the limit, and the mute and delete calls it made.
antiflood_check(cs, cache, buckets, chat_id, user_id, t, f, muteOk, delOk) ==
    LET cs1 == get_settings(cs, chat_id)
        s == cs1[chat_id]
    IN  IF s.antiflood_enabled = 0
        THEN SkipFlood(cs1, cache, buckets, s.antiflood_enabled, NoCheck)
        ELSE LET a == is_group_admin(cache, chat_id, user_id, t, f) IN
             IF a.res
             THEN SkipFlood(cs1, a.cache, buckets, s.antiflood_enabled, a.check)
             ELSE LET key == <<chat_id, user_id>>
                      bucket == bucket_append(buckets[key], t)
                      count == count_in_window(bucket, t, s.flood_window_sec)
                      exceeded == count >= s.flood_limit
                      e == IF exceeded THEN flood_enforce(muteOk, delOk) ELSE NoEnforce
                  IN  [res |-> exceeded, settings |-> cs1, cache |-> a.cache,
                       buckets |-> [buckets EXCEPT ![key] = bucket],
                       enabled |-> s.antiflood_enabled, check |-> a.check,
                       recorded |-> TRUE, count |-> count,
                       mutes |-> e.mutes, muted |-> e.muted,
                       deletes |-> e.deletes, deleted |-> e.deleted]

\* --------------------------------------------------------- content filter
\* Texts are sequences of one-character strings.
Uppers == <<"A", "B", "C", "D", "E", "F", "G", "H", "I", "J", "K", "L", "M",
            "N", "O", "P", "Q", "R", "S", "T", "U", "V", "W", "X", "Y", "Z">>
Lowers == <<"a", "b", "c", "d", "e", "f", "g", "h", "i", "j", "k", "l", "m",
            "n", "o", "p", "q", "r", "s", "t", "u", "v", "w", "x", "y", "z">>

lower_char(ch) ==
    IF \E i \in 1..Len(Uppers) : Uppers[i] = ch
    THEN Lowers[CHOOSE i \in 1..Len(Uppers) : Uppers[i] = ch]
    ELSE ch

Mut_str_lower_identity(text) == text

\* str.lower
str_lower(text) == [i \in 1..Len(text) |-> lower_char(text[i])]

\* phrase in text
str_contains(text, phrase) ==
    \E i \in 0..(Len(text) - Len(phrase)) : SubSeq(text, i + 1, i + Len(phrase)) = phrase

\* The alternatives of LINK_RE: https?://, t\.me/, www\.
LinkPatterns ==
    {<<"h", "t", "t", "p", ":", "/", "/">>, <<"h", "t", "t", "p", "s", ":", "/", "/">>,
     <<"t", ".", "m", "e", "/">>, <<"w", "w", "w", ".">>}

\* LINK_RE.search, case-insensitive
LINK_RE_search(text) == \E p \in LinkPatterns : str_contains(str_lower(text), p)

\* The characters str.strip removes.
Whitespace == {" ", "\t"}

\* str.strip
str_strip(text) ==
    LET kept == {i \in 1..Len(text) : text[i] \notin Whitespace} IN
    IF kept = {} THEN <<>>
    ELSE SubSeq(text, CHOOSE i \in kept : \A j \in kept : i <= j,
                      CHOOSE i \in kept : \A j \in kept : i >= j)

Mut_add_block_no_lower(bl, chat_id, phrase) ==
    IF str_strip(phrase) = <<>> THEN bl
    ELSE [bl EXCEPT ![chat_id] = @ \cup {str_strip(phrase)}]

\* add_block: the table blocklist has the primary key (chat_id, phrase) and
\* the row is written with INSERT OR IGNORE.
add_block(bl, chat_id, phrase) ==
    IF str_lower(str_strip(phrase)) = <<>> THEN bl
    ELSE [bl EXCEPT ![chat_id] = @ \cup {str_lower(str_strip(phrase))}]

\* remove_block
remove_block(bl, chat_id, phrase) ==
    [bl EXCEPT ![chat_id] = @ \ {str_lower(str_strip(phrase))}]

\* text.split()[0]: the first run of characters that are not whitespace.
first_token(text) ==
    LET kept == {i \in 1..Len(text) : text[i] \notin Whitespace}
        start == CHOOSE i \in kept : \A j \in kept : i <= j
        stops == {i \in (start + 1)..Len(text) : text[i] \in Whitespace}
    IN  IF stops = {} THEN SubSeq(text, start, Len(text))
        ELSE SubSeq(text, start, (CHOOSE i \in stops : \A j \in stops : i <= j) - 1)

\* cmd.split("@")[0]: what stands before the first "@".
before_at(cmd) ==
    LET ats == {i \in 1..Len(cmd) : cmd[i] = "@"} IN
    IF ats = {} THEN cmd
    ELSE SubSeq(cmd, 1, (CHOOSE i \in ats : \A j \in ats : i <= j) - 1)

Mut_extract_command_keeps_case(text) ==
    IF text = <<>> \/ text[1] # "/" THEN <<>>
    ELSE SubSeq(before_at(first_token(text)), 2, Len(before_at(first_token(text))))

\* extract_command
extract_command(text) ==
    IF text = <<>> \/ text[1] # "/" THEN <<>>
    ELSE str_lower(SubSeq(before_at(first_token(text)), 2,
                          Len(before_at(first_token(text)))))

\* The characters of a name as one string, as the gate compares it with the
\* names of its tuple.
RECURSIVE command_name(_)
command_name(chars) ==
    IF chars = <<>> THEN "" ELSE Head(chars) \o command_name(Tail(chars))

\* The message text whose whitespace-delimited tokens are parts, one space
\* between two tokens.
RECURSIVE message_text(_)
message_text(parts) ==
    IF parts = <<>> THEN <<>>
    ELSE IF Len(parts) = 1 THEN parts[1]
    ELSE parts[1] \o <<" ">> \o message_text(Tail(parts))

\* list_block: the phrases of the chat.
list_block(bl, chat_id) == bl[chat_id]

NoFilter(cs, cache) ==
    [res |-> FALSE, settings |-> cs, cache |-> cache, check |-> NoCheck,
     reason |-> "none", consulted |-> FALSE, deletes |-> 0, deleted |-> FALSE]

Mut_filter_check_no_exempt(cs, cache, bl, chat_id, user_id, text, t, f, delOk) ==
    LET cs1 == get_settings(cs, chat_id)
        s == cs1[chat_id]
        a == is_group_admin(cache, chat_id, user_id, t, f)
        low == str_lower(text)
        link == s.link_lock_enabled # 0 /\ LINK_RE_search(low)
        consulted == ~link /\ s.blocklist_enabled # 0
        reason ==
            IF link THEN "link"
            ELSE IF consulted
                    /\ \E phrase \in list_block(bl, chat_id) :
                          phrase # <<>> /\ str_contains(low, phrase)
            THEN "blocklist"
            ELSE "none"
    IN  IF text = <<>>
        THEN NoFilter(cs, cache)
        ELSE [res |-> reason # "none", settings |-> cs1, cache |-> a.cache,
              check |-> a.check, reason |-> reason, consulted |-> consulted,
              deletes |-> IF reason # "none" THEN 1 ELSE 0,
              deleted |-> reason # "none" /\ delOk]

\* filter_check: its answer, why ("link": the link lock, "blocklist": a stored
\* phrase), whether it read the blocklist, and the delete call it made, with
\* outcome delOk; an exception of the delete is passed over.
filter_check(cs, cache, bl, chat_id, user_id, text, t, f, delOk) ==
    LET cs1 == get_settings(cs, chat_id)
        s == cs1[chat_id]
        a == is_group_admin(cache, chat_id, user_id, t, f)
        low == str_lower(text)
        link == s.link_lock_enabled # 0 /\ LINK_RE_search(low)
        consulted == ~a.res /\ ~link /\ s.blocklist_enabled # 0
        reason ==
            IF a.res THEN "none"
            ELSE IF link THEN "link"
            ELSE IF consulted
                    /\ \E phrase \in list_block(bl, chat_id) :
                          phrase # <<>> /\ str_contains(low, phrase)
            THEN "blocklist"
            ELSE "none"
    IN  IF text = <<>>
        THEN NoFilter(cs, cache)
        ELSE [res |-> reason # "none", settings |-> cs1, cache |-> a.cache,
              check |-> a.check, reason |-> reason, consulted |-> consulted,
              deletes |-> IF reason # "none" THEN 1 ELSE 0,
              deleted |-> reason # "none" /\ delOk]

\* ----------------------------------------------------- moderation pipeline
\* The history of the timestamps appended for one (chat, user): how many
\* (counted up to two past the deque's capacity) and the first one.
note_append(h, t) ==
    [n |-> IF h.n < FLOOD_BUCKET_MAXLEN + 2 THEN h.n + 1 ELSE h.n,
     first |-> IF h.n = 0 THEN t ELSE h.first]

\* One text update of a group: on_text_message runs antiflood_check and, if it
\* answered False, filter_check.  f1 and f2 are the outcomes of the
\* administrator fetches of the two stages, muteOk and delOk those of the mute
\* and of the delete the update makes.
TextMessage(chat_id, user_id, text, f1, f2, muteOk, delOk) ==
    /\ is_group(chat_id)
    /\ \E fl \in {antiflood_check(chat_settings, ADMIN_CACHE, FLOOD_BUCKETS,
                                 chat_id, user_id, now, f1, muteOk, delOk)} :
       \E fi \in {IF fl.res
                 THEN NoFilter(fl.settings, fl.cache)
                 ELSE filter_check(fl.settings, fl.cache, blocklist, chat_id, user_id,
                                   text, now, f2, delOk)} :
        /\ chat_settings' = fi.settings
        /\ ADMIN_CACHE' = fi.cache
        /\ FLOOD_BUCKETS' = fl.buckets
        /\ appended' = IF fl.recorded
                       THEN [appended EXCEPT ![<<chat_id, user_id>>] = note_append(@, now)]
                       ELSE appended
        /\ obs' = [NoObs EXCEPT
                     !.kind = "text", !.chat = chat_id, !.user = user_id,
                     !.handler = "on_text_message",
                     !.check = fl.check, !.check2 = fi.check,
                     !.enabled = fl.enabled, !.floodRan = TRUE, !.flood = fl.res,
                     !.recorded = fl.recorded, !.count = fl.count, !.mutes = fl.mutes,
                     !.filterRan = ~fl.res, !.flagged = fi.res, !.reason = fi.reason,
                     !.consulted = fi.consulted,
                     !.deletes = fl.deletes + fi.deletes,
                     !.muteOk = muteOk, !.delOk = delOk,
                     !.muted = fl.muted, !.deleted = (fl.deleted \/ fi.deleted),
                     !.text = text]
        /\ UNCHANGED <<now, warnings, blocklist, banned, tasks>>

\* One callback update of the settings keyboard.
SettingsClick(chat_id, user_id, key) ==
    /\ chat_settings' = on_settings_click(chat_settings, chat_id, key)
    /\ obs' = [NoObs EXCEPT !.kind = "callback", !.chat = chat_id, !.user = user_id,
                            !.handler = "on_settings_click", !.toggled = key]
    /\ UNCHANGED <<now, ADMIN_CACHE, FLOOD_BUCKETS, warnings, blocklist, banned, appended,
                   tasks>>

\* -------------------------------------------------------------- commands
\* The command handlers of group 0 (CommandHandler registrations of main()).
CommandHandlers ==
    {"start", "help", "admin", "info", "settings", "warn", "warnings", "resetwarns", "ban",
     "unban", "mute", "unmute"}

\* One command update: the gate, then (unless stopped) the command's handler.
\* f is the outcome of the administrator fetch of the update: the gate's, or
\* cmd_admin's own (the gate makes none for /admin); parts is the message text
\* split on whitespace.
Command(chat_id, user_id, cmd, target, parts, f, replyOk, banOk) ==
    \E g \in {IF GateApplies(chat_id)
              THEN group_command_gate(ADMIN_CACHE, chat_id, user_id, cmd, now, f, replyOk)
              ELSE [outcome |-> "none", cache |-> ADMIN_CACHE, check |-> NoCheck,
                    replied |-> FALSE]} :
    \E runs \in {RunsNextGroup(g.outcome) /\ cmd \in CommandHandlers} :
    \E wr \in {IF runs /\ cmd = "warn"
               THEN cmd_warn(warnings, chat_id, target)
               ELSE [warnings |-> IF runs /\ cmd = "resetwarns"
                                  THEN cmd_resetwarns(warnings, chat_id, target)
                                  ELSE warnings,
                     count |-> 0, escalated |-> FALSE, reset |-> FALSE,
                     banAttempts |-> IF runs /\ cmd = "ban"
                                     THEN cmd_ban_attempts(target) ELSE 0]} :
    \E ls \in {IF runs /\ cmd = "admin" THEN cmd_admin(chat_id, f)
                ELSE [fetch |-> FALSE, listed |-> {}]} :
    \E cs1 \in {IF runs /\ cmd = "settings" THEN get_settings(chat_settings, chat_id)
                 ELSE chat_settings} :
    \E mu \in {IF runs /\ cmd = "mute" THEN cmd_mute(target, parts)
                ELSE [mutes |-> 0, minutes |-> 0]} :
        /\ ADMIN_CACHE' = g.cache
        /\ chat_settings' = cs1
        /\ warnings' = wr.warnings
        /\ banned' = ban_chat_member(banned, chat_id, target, wr.banAttempts, banOk)
        /\ obs' = [NoObs EXCEPT
                     !.kind = "command", !.chat = chat_id, !.user = user_id,
                     !.cmd = cmd, !.target = target, !.gate = g.outcome,
                     !.replied = g.replied,
                     !.handler = IF runs THEN cmd ELSE "none",
                     !.check = g.check,
                     !.countBefore = IF target = NoTarget THEN 0
                                     ELSE get_warn_count(warnings, chat_id, target),
                     !.count = wr.count, !.escalated = wr.escalated,
                     !.reset = wr.reset, !.banAttempts = wr.banAttempts,
                     !.banOk = (wr.banAttempts > 0 /\ banOk),
                     !.listFetch = ls.fetch, !.listed = ls.listed,
                     !.read = (runs /\ cmd = "settings"),
                     !.row = IF runs /\ cmd = "settings" THEN RowValues(cs1[chat_id])
                             ELSE <<>>,
                     !.parts = parts, !.mutes = mu.mutes, !.minutes = mu.minutes,
                     !.unmutes = IF runs /\ cmd = "unmute"
                                 THEN cmd_unmute_attempts(target) ELSE 0,
                     !.unbans = IF runs /\ cmd = "unban"
                                THEN cmd_unban_attempts(target) ELSE 0]
        /\ UNCHANGED <<now, FLOOD_BUCKETS, blocklist, appended, tasks>>

\* The clock moves on by d seconds, up to the time limit.
Tick(d, limit) ==
    /\ now + d <= limit
    /\ now' = now + d
    /\ obs' = [NoObs EXCEPT !.kind = "tick"]
    /\ UNCHANGED <<ADMIN_CACHE, chat_settings, FLOOD_BUCKETS, warnings, blocklist,
                   banned, appended, tasks>>

\* --------------------------------------------------------------- dispatch
\* The updates of the update queue, in the order they arrived, each with the
\* place of its handler: "queued" (not yet taken from the queue), "ban"
\* (awaiting ban_chat_member), "reply" (awaiting reply_text), "done", or
\* "hung" (awaiting a platform call that never returns).
TaskIds == 1..MaxTasks

QueuedTask == [pc |-> "queued", cmd |-> "", escalated |-> FALSE, failed |-> FALSE]

NoTasks == [h \in TaskIds |-> QueuedTask]

\* Application.builder().token(BOT_TOKEN).build(): concurrent_updates is not
\* set, so the update fetcher awaits the handlers of one update before it takes
\* the next one from the queue; every handler is registered with block=True.
concurrent_updates == FALSE

\* No handler is in flight.
DispatcherIdle == \A h \in TaskIds : tasks[h].pc \in {"queued", "done"}

\* The platform calls a handler can be awaiting.
PlatformCalls == {"ban", "reply"}

\* The update fetcher takes update h, a /warn or a /ban of the owner in reply
\* to bob in g1, from the queue and runs its handlers up to the first await
\* that waits for the platform: the gate lets the owner on without a fetch;
\* cmd_warn reads, stores and, at the limit, resets the count before it awaits
\* ban_chat_member or reply_text; cmd_ban awaits ban_chat_member.  With
\* concurrent set the handlers of distinct updates run as tasks that overlap
\* at their awaits.
TaskStart(h, cmd, concurrent) ==
    /\ tasks[h].pc = "queued"
    /\ \A j \in TaskIds : j < h => tasks[j].pc # "queued"
    /\ concurrent \/ DispatcherIdle
    /\ \E wr \in {IF cmd = "warn" THEN cmd_warn(warnings, "g1", "bob")
                   ELSE [warnings |-> warnings, count |-> 0, escalated |-> FALSE,
                         reset |-> FALSE, banAttempts |-> cmd_ban_attempts("bob")]} :
         /\ warnings' = wr.warnings
         /\ tasks' = [tasks EXCEPT ![h] =
                        [pc |-> IF wr.banAttempts > 0 THEN "ban" ELSE "reply",
                         cmd |-> cmd, escalated |-> wr.escalated, failed |-> FALSE]]
    /\ obs' = [NoObs EXCEPT !.kind = "task", !.cmd = cmd]
    /\ UNCHANGED <<now, ADMIN_CACHE, chat_settings, FLOOD_BUCKETS, blocklist, banned,
                   appended>>

\* ban_chat_member of handler h returns or raises; both ways the handler goes
\* on to its reply.
TaskBanReturn(h, ok) ==
    /\ tasks[h].pc = "ban"
    /\ banned' = ban_chat_member(banned, "g1", "bob", 1, ok)
    /\ tasks' = [tasks EXCEPT ![h].pc = "reply"]
    /\ obs' = [NoObs EXCEPT !.kind = "task", !.cmd = tasks[h].cmd]
    /\ UNCHANGED <<now, ADMIN_CACHE, chat_settings, FLOOD_BUCKETS, warnings, blocklist,
                   appended>>

\* reply_text of handler h returns or raises; an exception that leaves the
\* handler is logged by the dispatcher, and the update is over either way.
TaskReplyReturn(h, ok) ==
    /\ tasks[h].pc = "reply"
    /\ tasks' = [tasks EXCEPT ![h].pc = "done", ![h].failed = ~ok]
    /\ obs' = [NoObs EXCEPT !.kind = "task", !.cmd = tasks[h].cmd]
    /\ UNCHANGED <<now, ADMIN_CACHE, chat_settings, FLOOD_BUCKETS, warnings, blocklist,
                   banned, appended>>

\* One command update of a group, given by its text: the gate extracts the
\* name and lets the update on or stops it.  The texts are commands whose
\* handler, if one runs, replies and changes nothing (/help, /start, /info, a
\* /ban that replies to nobody, a name with no handler).
CommandText(chat_id, user_id, parts, f, replyOk) ==
    /\ GateApplies(chat_id)
    /\ \E cmd \in {command_name(extract_command(message_text(parts)))} :
       \E g \in {group_command_gate(ADMIN_CACHE, chat_id, user_id, cmd, now, f, replyOk)} :
        /\ ADMIN_CACHE' = g.cache
        /\ obs' = [NoObs EXCEPT
                     !.kind = "command_text", !.chat = chat_id, !.user = user_id,
                     !.cmd = cmd, !.gate = g.outcome, !.replied = g.replied,
                     !.handler = IF RunsNextGroup(g.outcome) /\ cmd \in CommandHandlers
                                 THEN cmd ELSE "none",
                     !.check = g.check, !.parts = parts]
    /\ UNCHANGED <<now, chat_settings, FLOOD_BUCKETS, warnings, blocklist, banned,
                   appended, tasks>>

\* add_block as cmd_block calls it.
BlockAdd(chat_id, phrase) ==
    /\ blocklist' = add_block(blocklist, chat_id, phrase)
    /\ obs' = [NoObs EXCEPT !.kind = "block", !.chat = chat_id, !.handler = "cmd_block",
                            !.text = phrase, !.stored = blocklist[chat_id]]
    /\ UNCHANGED <<now, ADMIN_CACHE, chat_settings, FLOOD_BUCKETS, warnings, banned,
                   appended, tasks>>

\* remove_block as cmd_unblock calls it.
BlockRemove(chat_id, phrase) ==
    /\ blocklist' = remove_block(blocklist, chat_id, phrase)
    /\ obs' = [NoObs EXCEPT !.kind = "unblock", !.chat = chat_id,
                            !.handler = "cmd_unblock", !.text = phrase,
                            !.stored = blocklist[chat_id]]
    /\ UNCHANGED <<now, ADMIN_CACHE, chat_settings, FLOOD_BUCKETS, warnings, banned,
                   appended, tasks>>

\* The platform call handler h awaits never returns: the handler stays at its
\* await for good.  One call of a run hangs at most.
TaskHang(h) ==
    /\ tasks[h].pc \in PlatformCalls
    /\ \A j \in TaskIds : tasks[j].pc # "hung"
    /\ tasks' = [tasks EXCEPT ![h].pc = "hung"]
    /\ obs' = [NoObs EXCEPT !.kind = "task", !.cmd = tasks[h].cmd]
    /\ UNCHANGED <<now, ADMIN_CACHE, chat_settings, FLOOD_BUCKETS, warnings, blocklist,
                   banned, appended>>

\* ------------------------------------------------------------------- init
NoHistory == [n |-> 0, first |-> 0]

Init ==
    /\ now = 0
    /\ ADMIN_CACHE = [c \in Chats |-> NoEntry]
    /\ chat_settings = [c \in Chats |-> NoRow]
    /\ FLOOD_BUCKETS = [k \in Chats \X Users |-> <<>>]
    /\ warnings = [k \in Chats \X Users |-> 0]
    /\ blocklist = [c \in Chats |-> {}]
    /\ banned = {}
    /\ appended = [k \in Chats \X Users |-> NoHistory]
    /\ obs = NoObs
    /\ tasks = NoTasks

\* ----------------------------------------- specification: command updates
CmdChats == {"g1"}
CmdNames == {"help", "admin", "info", "start", "warn", "resetwarns", "ban"}
\* The texts of /mute, split: no argument, minutes, a word, a negative number.
CmdParts ==
    {<<<<"/", "m", "u", "t", "e">>>>,
     <<<<"/", "m", "u", "t", "e">>, <<"2", "5">>>>,
     <<<<"/", "m", "u", "t", "e">>, <<"a", "b", "c">>>>,
     <<<<"/", "m", "u", "t", "e">>, <<"-", "1">>, <<"s", "p", "a", "m">>>>}
CmdTargets == {"bob", NoTarget}
CmdTickStep == ADMIN_CACHE_TTL \div 2

\* The inputs of one command update.  An input the update never reads (the
\* fetch outcome when no fetch is made, the reply outcome when nothing is
\* refused, the ban outcome when no ban is tried) is fixed, so that equal
\* updates are not enumerated twice.
FetchFail == [ok |-> FALSE, admins |-> {}]

\* The fetch outcomes of the admin-cache and flood runs: a failure, a list
\* without bob and a list with bob.
SomeFetches ==
    {FetchFail, [ok |-> TRUE, admins |-> {"alice"}],
     [ok |-> TRUE, admins |-> {"alice", "bob"}]}

FetchInputs(chat_id, user_id, cmd) ==
    IF \/ GateApplies(chat_id)
          /\ group_command_gate(ADMIN_CACHE, chat_id, user_id, cmd, now, FetchFail,
                                TRUE).check.fetch # "none"
       \/ cmd = "admin" /\ cmd_admin(chat_id, FetchFail).fetch
    THEN FetchOutcomes ELSE {FetchFail}

ReplyInputs(chat_id, user_id, cmd, f) ==
    IF GateApplies(chat_id)
       /\ group_command_gate(ADMIN_CACHE, chat_id, user_id, cmd, now, f, TRUE).replied
    THEN BOOLEAN ELSE {TRUE}

TargetInputs(cmd, targets) ==
    IF cmd \in {"warn", "resetwarns", "ban", "unban", "mute", "unmute"}
    THEN targets ELSE {NoTarget}

PartsInputs(cmd) == IF cmd = "mute" THEN CmdParts ELSE {<<>>}

BanInputs(cmd, target) ==
    IF cmd \in {"warn", "ban"} /\ target # NoTarget THEN BOOLEAN ELSE {TRUE}

CommandUpdate ==
    \E c \in CmdChats, u \in Users, cmd \in CmdNames :
      \E tg \in TargetInputs(cmd, CmdTargets), f \in FetchInputs(c, u, cmd) :
        \E replyOk \in ReplyInputs(c, u, cmd, f), banOk \in BanInputs(cmd, tg),
           parts \in PartsInputs(cmd) :
          Command(c, u, cmd, tg, parts, f, replyOk, banOk)

CmdTick == Tick(CmdTickStep, MaxCmdTicks * CmdTickStep)

NextCmd == CommandUpdate \/ CmdTick

SpecCmd == Init /\ [][NextCmd]_vars

\* ------------------------------------ specification: moderation commands
\* The commands that act on the user replied to, sent in g1 by the owner and
\* by bob, with and without a reply target.
ModNames == {"warn", "resetwarns", "ban", "unban", "mute", "unmute"}
ModSenders == {OWNER_ID, "bob"}

ModCommandUpdate ==
    \E u \in ModSenders, cmd \in ModNames :
      \E tg \in TargetInputs(cmd, CmdTargets), f \in FetchInputs("g1", u, cmd) \cap SomeFetches :
        \E replyOk \in ReplyInputs("g1", u, cmd, f), banOk \in BanInputs(cmd, tg),
           parts \in PartsInputs(cmd) :
          Command("g1", u, cmd, tg, parts, f, replyOk, banOk)

NextMod == ModCommandUpdate

SpecMod == Init /\ [][NextMod]_vars

\* -------------------------------------- specification: admin-cache runs
\* Updates that resolve privileges, in two groups, on a clock that steps by
\* half the TTL: a command outside the allow-list (one lookup by the gate) and
\* a text message (one lookup by each stage of the pipeline).  The mute and
\* the delete of a text message succeed here and in the flood runs; their
\* failures are inputs of the pipeline runs.
AdminTickStep == ADMIN_CACHE_TTL \div 2
AdminTexts == {<<"h", "i">>}
AdminTextSenders == {"bob", OWNER_ID}
AdminFetches == SomeFetches \cup {[ok |-> TRUE, admins |-> {}]}

AdminGateUpdate ==
    \E c \in Groups, u \in Users :
      \E f \in FetchInputs(c, u, "warnings") \cap AdminFetches :
        \E replyOk \in ReplyInputs(c, u, "warnings", f) :
          Command(c, u, "warnings", NoTarget, <<>>, f, replyOk, TRUE)

FloodFetchInputs(chat_id, user_id) ==
    IF antiflood_check(chat_settings, ADMIN_CACHE, FLOOD_BUCKETS, chat_id, user_id, now,
                       FetchFail, TRUE, TRUE).check.fetch # "none"
    THEN FetchOutcomes ELSE {FetchFail}

FilterFetchInputs(chat_id, user_id, text, f1) ==
    LET fl == antiflood_check(chat_settings, ADMIN_CACHE, FLOOD_BUCKETS, chat_id, user_id,
                              now, f1, TRUE, TRUE)
    IN  IF ~fl.res
           /\ filter_check(fl.settings, fl.cache, blocklist, chat_id, user_id, text, now,
                           FetchFail, TRUE).check.fetch # "none"
        THEN FetchOutcomes ELSE {FetchFail}

AdminTextUpdate ==
    \E u \in AdminTextSenders, text \in AdminTexts :
      /\ Len(FLOOD_BUCKETS[<<"g1", u>>]) < MaxAdminBurst
      /\ \E f1 \in FloodFetchInputs("g1", u) \cap AdminFetches :
           \E f2 \in FilterFetchInputs("g1", u, text, f1) \cap AdminFetches :
             TextMessage("g1", u, text, f1, f2, TRUE, TRUE)

AdminTick == Tick(AdminTickStep, MaxAdminTicks * AdminTickStep)

NextAdmin == AdminGateUpdate \/ AdminTextUpdate \/ AdminTick

SpecAdmin == Init /\ [][NextAdmin]_vars

\* ------------------------------------------------ specification: flood runs
\* The row of g1 is in the database when the process starts (init_db keeps an
\* existing table), with its flood thresholds as configured there; the clock
\* steps by one second; text messages and antiflood toggles interleave.
FloodLimits ==
    {2, DEFAULT_flood_limit, FLOOD_BUCKET_MAXLEN, FLOOD_BUCKET_MAXLEN + 1}
FloodWindows == 0..MaxFloodWindow
FloodSenders == {"bob", OWNER_ID}
FloodTexts == {<<"h", "i">>}
InitFlood ==
    /\ now = 0
    /\ ADMIN_CACHE = [c \in Chats |-> NoEntry]
    /\ \E l \in FloodLimits, w \in FloodWindows :
         chat_settings =
            [c \in Chats |->
                IF c = "g1"
                THEN [DefaultRow EXCEPT !.flood_limit = l, !.flood_window_sec = w]
                ELSE NoRow]
    /\ FLOOD_BUCKETS = [k \in Chats \X Users |-> <<>>]
    /\ warnings = [k \in Chats \X Users |-> 0]
    /\ blocklist = [c \in Chats |-> {}]
    /\ banned = {}
    /\ appended = [k \in Chats \X Users |-> NoHistory]
    /\ obs = NoObs
    /\ tasks = NoTasks

FloodTextUpdate ==
    \E u \in FloodSenders, text \in FloodTexts :
      \E f1 \in FloodFetchInputs("g1", u) \cap SomeFetches :
        \E f2 \in FilterFetchInputs("g1", u, text, f1) \cap SomeFetches :
          TextMessage("g1", u, text, f1, f2, TRUE, TRUE)

FloodToggle == SettingsClick("g1", "bob", "antiflood_enabled")

FloodTick == Tick(1, MaxFloodTicks)

NextFlood == FloodTextUpdate \/ FloodToggle \/ FloodTick

SpecFlood == InitFlood /\ [][NextFlood]_vars

\* -------------------------------------------- specification: pipeline runs
\* Text messages of g1 through both stages, with the toggles of the settings
\* keyboard in between.  The row of g1 and its blocklist are in the database
\* when the process starts: a flood limit of 2 and one stored phrase (add_block
\* stores phrases stripped and lower-cased).  The clock steps by half the TTL,
\* so the messages of one instant fall within the window.
PipeFloodLimit == 2
PipePhrases == {<<"x">>}
PipeTexts ==
    {<<"W", "W", "W", ".", "X">>, <<"t", ".", "m", "e", "/">>, <<"a", "X">>, <<"h", "i">>}
PipeSenders == {"bob", OWNER_ID}
PipeToggles == {"antiflood_enabled", "link_lock_enabled", "blocklist_enabled"}
PipeTickStep == ADMIN_CACHE_TTL \div 2

InitPipe ==
    /\ now = 0
    /\ ADMIN_CACHE = [c \in Chats |-> NoEntry]
    /\ chat_settings =
          [c \in Chats |->
              IF c = "g1" THEN [DefaultRow EXCEPT !.flood_limit = PipeFloodLimit]
              ELSE NoRow]
    /\ FLOOD_BUCKETS = [k \in Chats \X Users |-> <<>>]
    /\ warnings = [k \in Chats \X Users |-> 0]
    /\ blocklist = [c \in Chats |-> IF c = "g1" THEN PipePhrases ELSE {}]
    /\ banned = {}
    /\ appended = [k \in Chats \X Users |-> NoHistory]
    /\ obs = NoObs
    /\ tasks = NoTasks

\* The outcomes of the mute and of the delete of one text update; the outcome
\* of a call the update does not make is fixed.
MuteInputs(chat_id, user_id, f1) ==
    IF antiflood_check(chat_settings, ADMIN_CACHE, FLOOD_BUCKETS, chat_id, user_id, now,
                       f1, TRUE, TRUE).res
    THEN BOOLEAN ELSE {TRUE}

DeleteInputs(chat_id, user_id, text, f1, f2) ==
    LET fl == antiflood_check(chat_settings, ADMIN_CACHE, FLOOD_BUCKETS, chat_id, user_id,
                              now, f1, TRUE, TRUE)
    IN  IF fl.res
           \/ filter_check(fl.settings, fl.cache, blocklist, chat_id, user_id, text, now,
                           f2, TRUE).res
        THEN BOOLEAN ELSE {TRUE}

PipeTextUpdate ==
    \E u \in PipeSenders, text \in PipeTexts :
      /\ Len(FLOOD_BUCKETS[<<"g1", u>>]) < MaxPipeBurst
      /\ \E f1 \in FloodFetchInputs("g1", u) \cap SomeFetches :
           \E f2 \in FilterFetchInputs("g1", u, text, f1) \cap SomeFetches :
             \E muteOk \in MuteInputs("g1", u, f1),
                delOk \in DeleteInputs("g1", u, text, f1, f2) :
               TextMessage("g1", u, text, f1, f2, muteOk, delOk)

PipeToggle == \E key \in PipeToggles : SettingsClick("g1", "bob", key)

PipeTick == Tick(PipeTickStep, MaxPipeTicks * PipeTickStep)

NextPipe == PipeTextUpdate \/ PipeToggle \/ PipeTick

SpecPipe == InitPipe /\ [][NextPipe]_vars

\* --------------------------------------- specification: the settings store
\* Callbacks of the settings keyboard, whose data carries any key after
\* "tog:" (the handler's pattern is ^tog:), and /settings, which reads the row.
SettingsChats == {"g1", "g2"}
SettingsKeys ==
    {"antiflood_enabled", "flood_limit", "flood_window_sec", "flood_action_mute_sec",
     "unknown_key"}

SettingsToggle == \E c \in SettingsChats, key \in SettingsKeys : SettingsClick(c, "bob", key)

SettingsRead ==
    \E c \in SettingsChats :
        Command(c, OWNER_ID, "settings", NoTarget, <<>>, FetchFail, TRUE, TRUE)

NextSettings == SettingsToggle \/ SettingsRead

SpecSettings == Init /\ [][NextSettings]_vars

\* --------------------------------------- specification: command texts
\* First tokens of command messages (filters.COMMAND passes messages that
\* begin with a bot command, so each begins with "/"): names of the
\* allow-list in several cases, with a bot name, and tokens that reduce to
\* another name or to the empty one.
GateTokens ==
    {<<"/", "H", "E", "L", "P">>, <<"/", "H", "e", "l", "p">>,
     <<"/", "h", "e", "l", "p", "@", "a", "n", "y", "b", "o", "t">>,
     <<"/", "S", "t", "a", "r", "t", "@", "x", "@", "y">>,
     <<"/", "i", "n", "f", "o">>,
     <<"/", "h", "e", "l", "p", "x">>, <<"/", "h", "e", "@", "l", "p">>,
     <<"/", "B", "a", "n">>, <<"/", "@", "h", "e", "l", "p">>, <<"/">>}
GateRests == {<<>>, <<<<"e", "x", "t", "r", "a">>, <<"w", "o", "r", "d", "s">>>>,
              <<<<"h", "e", "l", "p">>>>}
GateSenders == {OWNER_ID, "alice", "bob"}

GateFetchInputs(user_id, parts) ==
    IF group_command_gate(ADMIN_CACHE, "g1", user_id,
                          command_name(extract_command(message_text(parts))), now,
                          FetchFail, TRUE).check.fetch # "none"
    THEN SomeFetches ELSE {FetchFail}

GateReplyInputs(user_id, parts, f) ==
    IF group_command_gate(ADMIN_CACHE, "g1", user_id,
                          command_name(extract_command(message_text(parts))), now,
                          f, TRUE).replied
    THEN BOOLEAN ELSE {TRUE}

GateTextUpdate ==
    \E u \in GateSenders, tok \in GateTokens, rest \in GateRests :
      \E f \in GateFetchInputs(u, <<tok>> \o rest) :
        \E replyOk \in GateReplyInputs(u, <<tok>> \o rest, f) :
          CommandText("g1", u, <<tok>> \o rest, f, replyOk)

GateTick == Tick(ADMIN_CACHE_TTL, ADMIN_CACHE_TTL)

NextGate == GateTextUpdate \/ GateTick

SpecGate == Init /\ [][NextGate]_vars

\* ------------------------------------------ specification: the blocklist
\* Phrases with upper case, surrounding whitespace, inner whitespace, and the
\* empty and the blank phrase.
BlockPhrases ==
    {<<>>, <<" ">>, <<" ", "\t">>, <<"x">>, <<"X">>, <<" ", "X", " ">>, <<"\t", "x">>,
     <<"a", " ", "B">>, <<"A", " ", "b", " ">>}
BlockChats == {"g1", "g2"}
BlockTexts == {<<"a", "X">>, <<"A", " ", "B">>, <<"h", " ", "i">>}

\* Antiflood is switched off in g1, so that every text reaches the filter.
InitBlock ==
    /\ now = 0
    /\ ADMIN_CACHE = [c \in Chats |-> NoEntry]
    /\ chat_settings =
          [c \in Chats |->
              IF c = "g1" THEN [DefaultRow EXCEPT !.antiflood_enabled = 0] ELSE NoRow]
    /\ FLOOD_BUCKETS = [k \in Chats \X Users |-> <<>>]
    /\ warnings = [k \in Chats \X Users |-> 0]
    /\ blocklist = [c \in Chats |-> {}]
    /\ banned = {}
    /\ appended = [k \in Chats \X Users |-> NoHistory]
    /\ obs = NoObs
    /\ tasks = NoTasks

BlockAddCall == \E c \in BlockChats, phrase \in BlockPhrases : BlockAdd(c, phrase)

BlockRemoveCall == \E c \in BlockChats, phrase \in BlockPhrases : BlockRemove(c, phrase)

BlockTextUpdate ==
    \E text \in BlockTexts :
      \E f2 \in FilterFetchInputs("g1", "bob", text, FetchFail)
                   \cap {FetchFail, [ok |-> TRUE, admins |-> {"alice"}]} :
        \E delOk \in DeleteInputs("g1", "bob", text, FetchFail, f2) :
          TextMessage("g1", "bob", text, FetchFail, f2, TRUE, delOk)

NextBlock == BlockAddCall \/ BlockRemoveCall \/ BlockTextUpdate

SpecBlock == InitBlock /\ [][NextBlock]_vars

\* ------------------------------------------- specification: dispatch runs
TaskCmds == {"warn", "ban"}

\* The dispatcher as main() builds it.
DispatchStart == \E h \in TaskIds, cmd \in TaskCmds : TaskStart(h, cmd, concurrent_updates)

DispatchBanReturn == \E h \in TaskIds, ok \in BOOLEAN : TaskBanReturn(h, ok)

DispatchReplyReturn == \E h \in TaskIds, ok \in BOOLEAN : TaskReplyReturn(h, ok)

DispatchHang == \E h \in TaskIds : TaskHang(h)

NextDispatch == DispatchStart \/ DispatchBanReturn \/ DispatchReplyReturn \/ DispatchHang

SpecDispatch == Init /\ [][NextDispatch]_vars

\* The event loop runs every coroutine that can run: the update fetcher takes
\* the next update when it is free to, and a platform call that has not hung
\* returns or raises.
TaskReturns(h) == \E ok \in BOOLEAN : TaskBanReturn(h, ok) \/ TaskReplyReturn(h, ok)

SpecDispatchFair ==
    /\ Init
    /\ [][NextDispatch]_vars
    /\ WF_vars(DispatchStart)
    /\ \A h \in TaskIds : WF_vars(TaskReturns(h))

\* The handlers of distinct updates as concurrently running tasks.
OverlapStart == \E h \in TaskIds, cmd \in TaskCmds : TaskStart(h, cmd, TRUE)

NextOverlap == OverlapStart \/ DispatchBanReturn \/ DispatchReplyReturn \/ DispatchHang

SpecOverlap == Init /\ [][NextOverlap]_vars

SpecOverlapFair ==
    /\ Init
    /\ [][NextOverlap]_vars
    /\ WF_vars(OverlapStart)
    /\ \A h \in TaskIds : WF_vars(TaskReturns(h))

\* ------------------------------------- specification: privilege resolution
\* is_group_admin applied to a user of a group or of a private chat, with the
\* outcome f the administrator fetch has if the call makes it, on a clock that
\* steps by half the TTL.
ResolveChats == {"g1", "pm"}
ResolveTickStep == ADMIN_CACHE_TTL \div 2

Resolve(chat_id, user_id, f) ==
    \E a \in {is_group_admin(ADMIN_CACHE, chat_id, user_id, now, f)} :
        /\ ADMIN_CACHE' = a.cache
        /\ obs' = [NoObs EXCEPT !.kind = "resolve", !.chat = chat_id, !.user = user_id,
                                !.check = a.check, !.verdict = a.res, !.fetchOk = f.ok]
        /\ UNCHANGED <<now, chat_settings, FLOOD_BUCKETS, warnings, blocklist, banned,
                       appended, tasks>>

ResolveCall == \E c \in ResolveChats, u \in Users, f \in FetchOutcomes : Resolve(c, u, f)

ResolveTick == Tick(ResolveTickStep, MaxResolveTicks * ResolveTickStep)

NextResolve == ResolveCall \/ ResolveTick

SpecResolve == Init /\ [][NextResolve]_vars

\* ------------------------------------------------- claims: command updates
\* The last update was a group command outside the allow-list whose sender the
\* gate resolved as not privileged.
GateRefused ==
    /\ obs.kind = "command"
    /\ is_group(obs.chat)
    /\ obs.cmd \notin AllowedForAll
    /\ ~is_owner(obs.user)
    /\ obs.check.made
    /\ obs.user \notin obs.check.ids

\* C1: a group command outside the allow-list from a user for whom isAdmin is
\* false is refused and no later handler runs for that update, whatever the
\* outcome of the calls made while gating (the refusal reply included).
C1_GateRejection == GateRefused => obs.handler = "none"

\* C2: a group command whose name is admin, info, help or start passes the
\* gate to its handler for every sender; the gate refuses nothing, makes no
\* admin-cache lookup and no administrator fetch for it.
C2_AllowList ==
    (obs.kind = "command" /\ is_group(obs.chat) /\ obs.cmd \in AllowedForAll)
        => /\ obs.gate = "return"
           /\ obs.handler = obs.cmd
           /\ ~obs.replied
           /\ ~obs.check.made
           /\ obs.check.fetch = "none"

\* bob, whom the cached administrator list does not hold, ran /help.
C2_Witness ==
    /\ obs.kind = "command" /\ obs.cmd = "help" /\ obs.user = "bob"
    /\ obs.handler = "help"
    /\ ADMIN_CACHE[obs.chat].present
    /\ "bob" \notin ADMIN_CACHE[obs.chat].ids

\* C12: the listing /admin composes for a group never holds the owner's id,
\* whatever administrator list the platform returns.
C12_OwnerNotListed ==
    (obs.kind = "command" /\ obs.handler = "admin" /\ is_group(obs.chat))
        => OWNER_ID \notin obs.listed

\* The moderation commands that act on the user replied to.
TargetCommands == {"warn", "ban", "unban", "mute", "unmute", "resetwarns"}

\* The duration argument of a /mute text is present and is no number.
DurationNotANumber(parts) ==
    /\ Len(parts) >= 2
    /\ \E i \in 1..Len(parts[2]) : ~IsDigit(parts[2][i]) /\ ~(i = 1 /\ parts[2][1] = "-")

\* C20: a moderation command handled without a reply target, or a /mute whose
\* duration argument is no number, changes no warning count and makes no ban,
\* unban, mute, unmute or delete call.
C20_ValidationMutatesNothing ==
    [][(/\ obs'.kind = "command"
        /\ obs'.handler \in TargetCommands
        /\ \/ obs'.target = NoTarget
           \/ obs'.handler = "mute" /\ DurationNotANumber(obs'.parts))
          => /\ warnings' = warnings
             /\ banned' = banned
             /\ obs'.banAttempts = 0 /\ obs'.unbans = 0
             /\ obs'.mutes = 0 /\ obs'.unmutes = 0
             /\ obs'.deletes = 0
      ]_vars

\* The last update ran cmd_warn on a reply target in a group.
Warned ==
    /\ obs.kind = "command" /\ obs.handler = "warn"
    /\ is_group(obs.chat) /\ obs.target # NoTarget

\* C5: from count 0 three warns store 1, 2, 3 without escalation and the fourth
\* escalates and stores 0: a warn on stored count b stores b + 1 when b < 3
\* and escalates and stores 0 when b = 3; between updates every stored
\* count is in 0..3.
C5_WarnEscalation ==
    /\ \A k \in Chats \X Users : warnings[k] \in 0..3
    /\ Warned =>
          LET b == obs.countBefore
              stored == warnings[<<obs.chat, obs.target>>]
          IN  /\ b < 3 => (stored = b + 1 /\ obs.count = b + 1 /\ ~obs.escalated)
              /\ b = 3 => (stored = 0 /\ obs.count = 4 /\ obs.escalated)

\* The fourth warn of a user escalated and left the stored count at 0.
C5_Witness ==
    /\ Warned /\ obs.countBefore = 3 /\ obs.escalated
    /\ warnings[<<obs.chat, obs.target>>] = 0

\* C6: a warn attempts the ban exactly once if and only if it escalates, and
\* whenever a warn reset the count at the threshold the target is banned by the
\* end of that update, whatever the outcome of the ban call.
C6_BanWithReset ==
    Warned =>
        /\ obs.banAttempts = (IF obs.escalated THEN 1 ELSE 0)
        /\ obs.reset => <<obs.chat, obs.target>> \in banned

\* ------------------------------------------------ claims: the admin cache
\* The lookups of get_admin_ids the last update made, in order.
Lookups == {k \in {obs.check, obs.check2} : k.made}

\* The lookup found an entry younger than the TTL.
FoundFresh(k) == k.entry.present /\ k.at - k.entry.ts < ADMIN_CACHE_TTL

\* The lookup found an entry whose TTL had elapsed.
FoundStale(k) == k.entry.present /\ k.at - k.entry.ts >= ADMIN_CACHE_TTL

\* C7: a lookup that finds the chat's entry younger than the TTL (600 s) makes
\* no administrator fetch, and a lookup that finds it at or past the TTL
\* makes one refresh attempt; so for each lookup of an update that makes two.
C7_CacheFreshness ==
    \A k \in Lookups :
        /\ FoundFresh(k) => k.fetch = "none"
        /\ FoundStale(k) => k.fetch \in {"ok", "fail"}

\* A text update whose first lookup found a stale entry and refreshed it, and
\* whose second lookup then made no fetch.
C7_Witness ==
    /\ obs.kind = "text" /\ obs.check.made /\ obs.check2.made
    /\ FoundStale(obs.check) /\ obs.check.fetch = "ok"
    /\ FoundFresh(obs.check2) /\ obs.check2.fetch = "none"

\* C8: when the entry is older than the TTL and the refresh fails, the lookup
\* returns exactly the stale ids and the verdict is membership in them.
C8_FailOpen ==
    \A k \in Lookups :
        (FoundStale(k) /\ k.fetch = "fail")
            => (k.ids = k.entry.ids /\ k.res = (k.user \in k.entry.ids))

\* alice, in the stale set, passed the gate although the refresh failed.
C8_Witness ==
    /\ obs.kind = "command" /\ obs.check.made /\ FoundStale(obs.check)
    /\ obs.check.fetch = "fail" /\ obs.user = "alice"
    /\ "alice" \in obs.check.entry.ids /\ obs.check.entry.ids # {}
    /\ obs.gate = "return"

\* C9: when the chat has no entry and the refresh fails, the lookup returns the
\* empty set, the verdict for the (non-owner) user is false, and the chat
\* still has no entry afterwards.
C9_FailClosed ==
    /\ \A k \in Lookups :
          (~k.entry.present /\ k.fetch = "fail") => (k.ids = {} /\ ~k.res)
    /\ (obs.check.made /\ ~obs.check.entry.present /\ obs.check.fetch = "fail")
          => IF obs.check2.made THEN ~obs.check2.entry.present
             ELSE ~ADMIN_CACHE[obs.check.chat].present
    /\ (obs.check2.made /\ ~obs.check2.entry.present /\ obs.check2.fetch = "fail")
          => ~ADMIN_CACHE[obs.check2.chat].present

\* alice was refused by the gate: no entry, and the fetch failed.
C9_Witness ==
    /\ obs.kind = "command" /\ obs.check.made /\ ~obs.check.entry.present
    /\ obs.check.fetch = "fail" /\ obs.user = "alice" /\ obs.gate = "stop"
    /\ ~ADMIN_CACHE[obs.chat].present

\* The lookups the update of this step made.
StepLookups == {k \in {obs'.check, obs'.check2} : k.made}

\* C10: a chat's entry changes only in a step with a successful refresh for
\* that chat, and then to the fetched set with the current time; a step whose
\* refreshes all failed changes no entry; no step removes an entry.
C10_CacheMutation ==
    [][\A c \in Chats :
        /\ ADMIN_CACHE'[c] # ADMIN_CACHE[c]
             => \E k \in StepLookups :
                  /\ k.chat = c /\ k.fetch = "ok"
                  /\ ADMIN_CACHE'[c] = [present |-> TRUE, ids |-> k.fetched, ts |-> now']
        /\ (\A k \in StepLookups : k.fetch # "ok") => ADMIN_CACHE' = ADMIN_CACHE
        /\ ADMIN_CACHE[c].present => ADMIN_CACHE'[c].present
      ]_vars

\* A successful refresh replaced an existing entry by the fetched set and the
\* current time.
C10_Witness ==
    /\ obs.check.made /\ obs.check.fetch = "ok" /\ FoundStale(obs.check)
    /\ obs.check.entry.ids # obs.check.fetched
    /\ ADMIN_CACHE[obs.check.chat] =
          [present |-> TRUE, ids |-> obs.check.fetched, ts |-> now]
    /\ ADMIN_CACHE["g2"].present /\ obs.check.chat = "g1"

\* ---------------------------------------------------- claims: flood runs
\* The last update appended the sender's n-th timestamp since the empty
\* bucket, n at most the configured limit, all n within the window.
WithinLimitRun ==
    /\ obs.kind = "text" /\ obs.recorded
    /\ appended[<<obs.chat, obs.user>>].n <= chat_settings[obs.chat].flood_limit
    /\ now - appended[<<obs.chat, obs.user>>].first
          <= chat_settings[obs.chat].flood_window_sec

\* C3 as claimed: for every configured limit and window, of the first
\* flood_limit messages sent within the window from an empty bucket, the
\* flood check answers 'exceeded' for the flood_limit-th and for no earlier one.
C3_FloodTrigger ==
    WithinLimitRun
        => (obs.flood <=>
              appended[<<obs.chat, obs.user>>].n = chat_settings[obs.chat].flood_limit)

\* C3 as amended: the same for every configured limit up to the bucket's
\* capacity of 20 timestamps.
C3_FloodTriggerUpToCap ==
    (WithinLimitRun /\ chat_settings[obs.chat].flood_limit <= FLOOD_BUCKET_MAXLEN)
        => (obs.flood <=>
              appended[<<obs.chat, obs.user>>].n = chat_settings[obs.chat].flood_limit)

\* The 20th message of a run configured with limit 20 was answered 'exceeded'.
C3_Witness ==
    /\ WithinLimitRun /\ obs.flood
    /\ chat_settings[obs.chat].flood_limit = FLOOD_BUCKET_MAXLEN
    /\ appended[<<obs.chat, obs.user>>].n = FLOOD_BUCKET_MAXLEN

\* The flood stage of the text update of this step resolved the sender as
\* privileged.
StepPrivileged == is_owner(obs'.user) \/ (obs'.check.made /\ obs'.check.res)

\* C4: a text update handled while antiflood is disabled for the chat, or
\* whose sender is privileged, gets the answer false from the flood check and
\* leaves every bucket as it was, whatever toggles came before it.
C4_FloodExempt ==
    [][(obs'.kind = "text"
        /\ (chat_settings'[obs'.chat].antiflood_enabled = 0 \/ StepPrivileged))
          => (~obs'.flood /\ ~obs'.recorded /\ FLOOD_BUCKETS' = FLOOD_BUCKETS)
      ]_vars

\* bob, with a timestamp in his bucket from before the toggle, sent a message
\* while antiflood was disabled.
C4_Witness ==
    /\ obs.kind = "text" /\ obs.user = "bob" /\ obs.enabled = 0
    /\ chat_settings[obs.chat].antiflood_enabled = 0
    /\ Len(FLOOD_BUCKETS[<<obs.chat, "bob">>]) = 1
    /\ ~obs.flood

\* ------------------------------------------ claims: privilege resolution
\* C11: is_group_admin answers true for the owner in every chat and for every
\* user of a private chat, whatever the chat's cache entry (absent, fresh,
\* stale) and whatever the fetch would do, makes no lookup and no fetch, and
\* leaves the cache as it was.
C11_FastPaths ==
    [][(obs'.kind = "resolve" /\ (is_owner(obs'.user) \/ ~is_group(obs'.chat)))
          => /\ obs'.verdict
             /\ ~obs'.check.made
             /\ obs'.check.fetch = "none"
             /\ ADMIN_CACHE' = ADMIN_CACHE
      ]_vars

\* The owner was resolved in a group whose entry is stale and does not hold the
\* owner, with a fetch that would have failed.
C11_Witness ==
    /\ obs.kind = "resolve" /\ obs.user = OWNER_ID /\ obs.chat = "g1"
    /\ ADMIN_CACHE["g1"].present
    /\ now - ADMIN_CACHE["g1"].ts >= ADMIN_CACHE_TTL
    /\ OWNER_ID \notin ADMIN_CACHE["g1"].ids
    /\ ~obs.fetchOk /\ obs.verdict

\* ------------------------------------------------- claims: pipeline runs
\* The terminal states of one text update, by the calls it attempted.
Passed == ~obs.flood /\ ~obs.flagged /\ obs.mutes = 0 /\ obs.deletes = 0

MutedAndDeleted == obs.flood /\ ~obs.flagged /\ obs.mutes = 1 /\ obs.deletes = 1

Deleted == ~obs.flood /\ obs.flagged /\ obs.mutes = 0 /\ obs.deletes = 1

\* C13: a group text update runs the flood stage first and the content filter
\* only if the flood stage answered 'not exceeded' (the filter's lookup then
\* sees the cache as the flood stage left it); it ends in exactly one of
\* passed, muted-and-deleted and deleted, and attempts at most one delete.
C13_PipelineOrder ==
    obs.kind = "text" =>
        /\ obs.floodRan
        /\ obs.filterRan <=> ~obs.flood
        /\ ~obs.filterRan => (~obs.flagged /\ ~obs.check2.made /\ ~obs.consulted)
        /\ (obs.check.made /\ obs.check.fetch = "ok" /\ obs.check2.made)
              => obs.check2.entry =
                    [present |-> TRUE, ids |-> obs.check.fetched, ts |-> obs.check.at]
        /\ Cardinality({st \in {"passed", "muted-and-deleted", "deleted"} :
                            \/ st = "passed" /\ Passed
                            \/ st = "muted-and-deleted" /\ MutedAndDeleted
                            \/ st = "deleted" /\ Deleted}) = 1
        /\ obs.deletes <= 1

\* bob's message passed the flood stage, whose fetch refreshed the cache, and
\* was deleted by the content filter.
C13_Witness ==
    /\ obs.kind = "text" /\ obs.user = "bob" /\ Deleted /\ obs.filterRan
    /\ obs.recorded /\ obs.check.fetch = "ok" /\ obs.check2.made

\* C14: when the limit is exceeded the mute and the delete are each attempted
\* exactly once whatever their outcomes, nothing is sent to the sender, the
\* answer is positive and the content filter does not run; the flood stage's
\* answer is positive exactly when the count reached the limit; a message the
\* content filter flags has its delete attempted once and ends the pipeline
\* whatever the outcome of the delete.
C14_BestEffort ==
    obs.kind = "text" =>
        /\ obs.recorded
              => (obs.flood <=> obs.count >= chat_settings[obs.chat].flood_limit)
        /\ obs.flood
              => /\ obs.mutes = 1 /\ obs.deletes = 1
                 /\ ~obs.replied
                 /\ ~obs.filterRan /\ ~obs.flagged
                 /\ obs.muted = obs.muteOk /\ obs.deleted = obs.delOk
        /\ obs.flagged
              => (obs.deletes = 1 /\ obs.mutes = 0 /\ ~obs.replied
                  /\ obs.deleted = obs.delOk)

\* The limit was exceeded, the mute failed, the delete was attempted and
\* failed too.
C14_Witness ==
    /\ obs.kind = "text" /\ obs.flood /\ ~obs.muteOk /\ ~obs.delOk
    /\ obs.mutes = 1 /\ obs.deletes = 1 /\ ~obs.muted /\ ~obs.deleted

\* Every resolution the text update made of its sender answered privileged.
ResolvedPrivileged ==
    \/ is_owner(obs.user)
    \/ /\ obs.check.made \/ obs.check2.made
       /\ \A k \in {obs.check, obs.check2} : k.made => k.res

ContainsIgnoringCase(text, phrase) ==
    \E i \in 0..(Len(text) - Len(phrase)) :
        \A j \in 1..Len(phrase) : lower_char(text[i + j]) = lower_char(phrase[j])

HasLink(text) == \E p \in LinkPatterns : ContainsIgnoringCase(text, p)

HasBlockedPhrase(chat_id, text) ==
    \E phrase \in blocklist[chat_id] : ContainsIgnoringCase(text, phrase)

\* C16: a message of a sender the content filter resolved as not privileged is
\* flagged exactly when the link lock is on and the text holds a link pattern,
\* or the blocklist is on and a stored phrase of the chat occurs in the text,
\* case ignored; with the link lock on a link is flagged as a link without the
\* blocklist being read; with the link lock off and the blocklist on a
\* stored phrase is flagged by the blocklist; with both off nothing is flagged.
C16_FilterGating ==
    (obs.kind = "text" /\ obs.filterRan /\ obs.check2.made /\ ~obs.check2.res) =>
        LET s == chat_settings[obs.chat]
            link == s.link_lock_enabled # 0 /\ HasLink(obs.text)
            blocked == s.blocklist_enabled # 0 /\ HasBlockedPhrase(obs.chat, obs.text)
        IN  /\ obs.flagged <=> (link \/ blocked)
            /\ link => (obs.reason = "link" /\ ~obs.consulted)
            /\ (~link /\ blocked) => (obs.reason = "blocklist" /\ obs.consulted)
            /\ (s.link_lock_enabled = 0 /\ s.blocklist_enabled = 0)
                  => (~obs.flagged /\ ~obs.consulted)

\* A message with a link and a stored phrase, both in upper case, was flagged
\* by the blocklist while the link lock was off.
C16_Witness ==
    /\ obs.kind = "text" /\ obs.filterRan /\ obs.check2.made /\ ~obs.check2.res
    /\ obs.text = <<"W", "W", "W", ".", "X">>
    /\ chat_settings[obs.chat].link_lock_enabled = 0
    /\ chat_settings[obs.chat].blocklist_enabled # 0
    /\ obs.flagged /\ obs.reason = "blocklist"

\* ---------------------------------------------- claims: the flood buckets
\* The last n elements of a sequence.
LastOf(seq, n) == SubSeq(seq, Len(seq) - n + 1, Len(seq))

\* C17: every bucket holds at most 20 timestamps, in non-decreasing order; a
\* step that records a timestamp leaves the sender's bucket as the most
\* recent 20 of its former timestamps followed by the new one (the oldest is
\* the one dropped) and touches no other bucket, and no other step changes a
\* bucket; the count compared with the limit is the number of the bucket's
\* timestamps at most flood_window_sec before the message.
C17_BucketInvariant ==
    [][/\ \A k \in Chats \X Users :
            /\ Len(FLOOD_BUCKETS'[k]) <= 20
            /\ \A i \in 1..(Len(FLOOD_BUCKETS'[k]) - 1) :
                  FLOOD_BUCKETS'[k][i] <= FLOOD_BUCKETS'[k][i + 1]
       /\ IF obs'.kind = "text" /\ obs'.recorded
          THEN LET key == <<obs'.chat, obs'.user>>
                   all == FLOOD_BUCKETS[key] \o <<now>>
                   kept == LastOf(all, IF Len(all) > 20 THEN 20 ELSE Len(all))
               IN  /\ FLOOD_BUCKETS' = [FLOOD_BUCKETS EXCEPT ![key] = kept]
                   /\ obs'.count =
                        Cardinality({i \in 1..Len(kept) :
                                        kept[i] >= now - chat_settings'[obs'.chat].flood_window_sec})
          ELSE FLOOD_BUCKETS' = FLOOD_BUCKETS
      ]_vars

\* A 22nd timestamp was recorded: the bucket is full, its oldest timestamp is
\* later than the first one ever recorded, and all 20 were counted.
C17_Witness ==
    /\ obs.kind = "text" /\ obs.recorded
    /\ appended[<<obs.chat, obs.user>>].n = FLOOD_BUCKET_MAXLEN + 2
    /\ Len(FLOOD_BUCKETS[<<obs.chat, obs.user>>]) = FLOOD_BUCKET_MAXLEN
    /\ FLOOD_BUCKETS[<<obs.chat, obs.user>>][1] > appended[<<obs.chat, obs.user>>].first
    /\ obs.count = FLOOD_BUCKET_MAXLEN

\* ------------------------------------------- claims: the settings store
\* C18: after every settings operation every row has flood_limit > 0,
\* flood_window_sec > 0 and flood_action_mute_sec >= 0, and a toggle request
\* whose key is none of the boolean toggles leaves every row as it was.
C18_SettingsInvariant ==
    [][/\ \A c \in Chats :
            chat_settings'[c].exists
                => /\ chat_settings'[c].flood_limit > 0
                   /\ chat_settings'[c].flood_window_sec > 0
                   /\ chat_settings'[c].flood_action_mute_sec >= 0
       /\ (obs'.kind = "callback" /\ obs'.toggled \notin BooleanToggles)
            => chat_settings' = chat_settings
      ]_vars

\* The values of a new row, in the order of RowValues: antiflood on, limit 6,
\* window 8, mute 60, link lock off, blocklist on, greetings on, clean
\* commands off.
ClaimedDefaults == <<1, 6, 8, 60, 0, 1, 1, 0>>

\* C19: a row comes into being with the default values (a read returns them;
\* a toggle that is the chat's first reference applies to them); a read
\* changes no existing row and returns the row as stored; a row changes only
\* in a step that toggles a column of it, so reads return the defaults until
\* the chat's first toggle.
C19_SettingsDefaults ==
    [][\A c \in Chats :
        /\ (~chat_settings[c].exists /\ chat_settings'[c].exists)
              => /\ obs'.chat = c
                 /\ obs'.read => (RowValues(chat_settings'[c]) = ClaimedDefaults
                                  /\ obs'.row = ClaimedDefaults)
                 /\ ~obs'.read
                      => \A col \in Columns \ {obs'.toggled} :
                            chat_settings'[c][col] = DefaultRow[col]
        /\ (obs'.read /\ obs'.chat = c) => obs'.row = RowValues(chat_settings'[c])
        /\ (chat_settings[c].exists /\ obs'.read) => chat_settings'[c] = chat_settings[c]
        /\ (chat_settings[c].exists /\ chat_settings'[c] # chat_settings[c])
              => (obs'.kind = "callback" /\ obs'.chat = c)
        /\ chat_settings[c].exists => chat_settings'[c].exists
      ]_vars

\* /settings read the row of g1, created before by a read, and got the
\* defaults, while g2 has had a column toggled.
C19_Witness ==
    /\ obs.read /\ obs.chat = "g1" /\ obs.row = ClaimedDefaults
    /\ chat_settings["g1"].exists
    /\ chat_settings["g2"].exists /\ chat_settings["g2"].antiflood_enabled = 0

\* -------------------------------------------------- claims: dispatch runs
\* The /warn handlers that have run their first part.
WarnsApplied == {h \in TaskIds : tasks[h].cmd = "warn" /\ tasks[h].pc # "queued"}

\* C21: with the handlers of the warns of one (chat, user) running
\* concurrently, every increment takes effect: after k warns from count 0 the
\* stored count is k modulo 4 and k div 4 of them escalated, as in a
\* sequential execution (two warns leave 2, never 1).
C21_NoLostWarn ==
    /\ warnings[<<"g1", "bob">>] = Cardinality(WarnsApplied) % 4
    /\ Cardinality({h \in WarnsApplied : tasks[h].escalated})
          = Cardinality(WarnsApplied) \div 4

\* Two /warn handlers are in flight at once, both awaiting their reply, and
\* the stored count is 2.
C21_Witness ==
    /\ tasks[1].cmd = "warn" /\ tasks[1].pc = "reply"
    /\ tasks[2].cmd = "warn" /\ tasks[2].pc = "reply"
    /\ WarnsApplied = {1, 2}
    /\ warnings[<<"g1", "bob">>] = 2

\* ------------------------------------------ claims: what settings gate
\* C22: a group text message handled while antiflood, the link lock and the
\* blocklist are all disabled for its chat records no timestamp, does not read
\* the blocklist, and makes no admin-cache lookup in either stage (so the
\* cache is neither read nor refreshed and no administrator fetch is made).
C22_DisabledConsultsNothing ==
    (/\ obs.kind = "text"
     /\ chat_settings[obs.chat].antiflood_enabled = 0
     /\ chat_settings[obs.chat].link_lock_enabled = 0
     /\ chat_settings[obs.chat].blocklist_enabled = 0)
        => (/\ ~obs.recorded
            /\ ~obs.consulted
            /\ ~obs.check.made
            /\ ~obs.check2.made)

\* ------------------------------------------------ claims: isolation
\* C23: while the handler of one update is blocked in a platform call that
\* never returns, every other update of the queue is eventually processed to
\* completion.
C23_HandlerIsolation ==
    \A h \in TaskIds :
        (tasks[h].pc = "hung") ~> (\A j \in TaskIds \ {h} : tasks[j].pc = "done")

\* ------------------------------------------------ claims: the blocklist
\* The phrase has no upper-case letter, no whitespace at either end and at
\* least one character.
Normalised(phrase) ==
    /\ phrase # <<>>
    /\ \A i \in 1..Len(phrase) : \A k \in 1..Len(Uppers) : phrase[i] # Uppers[k]
    /\ phrase[1] \notin Whitespace /\ phrase[Len(phrase)] \notin Whitespace

\* The two phrases differ in case and surrounding whitespace only.
SamePhrase(p, q) ==
    \E i \in 0..Len(q) : \E n \in 0..(Len(q) - i) :
        /\ n = Len(p)
        /\ \A j \in 1..n : lower_char(q[i + j]) = lower_char(p[j])
        /\ \A j \in (1..i) \cup ((i + n + 1)..Len(q)) : q[j] \in Whitespace

\* C24: every stored phrase of every chat is lower-cased, trimmed and
\* non-empty, and no two stored phrases of a chat differ in case or
\* surrounding whitespace only; adding a phrase that differs from a stored one
\* in case or surrounding whitespace only, or removing a phrase, adds nothing;
\* a message the blocklist flags holds a stored, non-blank phrase.
C24_BlocklistNormalised ==
    /\ \A c \in Chats : \A p \in blocklist[c] : Normalised(p)
    /\ \A c \in Chats : \A p, q \in blocklist[c] : SamePhrase(p, q) => p = q
    /\ (obs.kind = "block" /\ \E q \in obs.stored : SamePhrase(q, obs.text))
          => blocklist[obs.chat] = obs.stored
    /\ obs.kind = "unblock" => blocklist[obs.chat] \subseteq obs.stored
    /\ (obs.kind = "text" /\ obs.reason = "blocklist")
          => \E p \in blocklist[obs.chat] : Normalised(p) /\ ContainsIgnoringCase(obs.text, p)
    /\ (obs.kind = "text" /\ obs.filterRan /\ obs.check2.made /\ ~obs.check2.res
           /\ ~\E p \in blocklist[obs.chat] : ContainsIgnoringCase(obs.text, p))
          => ~obs.flagged

\* " X " was added to a chat that stored "x" and "a b", and nothing changed.
C24_Witness ==
    /\ obs.kind = "block" /\ obs.text = <<" ", "X", " ">>
    /\ obs.stored = {<<"x">>, <<"a", " ", "b">>}
    /\ blocklist[obs.chat] = obs.stored

\* ------------------------------------------- claims: command names
\* The name the words of the specification give a first token: the token
\* without its first character, cut before the first "@", case-folded.
ClaimedName(tok) ==
    LET cut == IF \E i \in 1..Len(tok) : tok[i] = "@"
               THEN (CHOOSE i \in 1..Len(tok) :
                        tok[i] = "@" /\ \A j \in 1..(i - 1) : tok[j] # "@") - 1
               ELSE Len(tok)
    IN  command_name([i \in 1..(cut - 1) |-> lower_char(tok[i + 1])])

HelpTokens ==
    {<<"/", "H", "E", "L", "P">>, <<"/", "H", "e", "l", "p">>,
     <<"/", "h", "e", "l", "p", "@", "a", "n", "y", "b", "o", "t">>}

\* C25: the name the gate tests is the first token of the message without its
\* marker, cut before the first "@" and case-folded; "/HELP", "/help@anybot"
\* and "/Help extra words" are the allow-listed "help" and pass for everyone
\* without a privilege lookup; a token that reduces to the empty name or to a
\* name outside the allow-list passes only for a privileged sender.
C25_CommandName ==
    obs.kind = "command_text" =>
        /\ obs.cmd = ClaimedName(obs.parts[1])
        /\ obs.parts[1] \in HelpTokens => obs.cmd = "help"
        /\ obs.cmd \in {"admin", "info", "help", "start"}
              => (obs.gate = "return" /\ ~obs.check.made)
        /\ obs.cmd \notin {"admin", "info", "help", "start"}
              => /\ is_owner(obs.user) \/ obs.check.made
                 /\ obs.gate = "return"
                       <=> (is_owner(obs.user) \/ (obs.check.made /\ obs.check.res))

\* bob's "/Help extra words" passed the gate as "help".
C25_Witness ==
    /\ obs.kind = "command_text" /\ obs.user = "bob"
    /\ obs.parts = <<<<"/", "H", "e", "l", "p">>, <<"e", "x", "t", "r", "a">>,
                     <<"w", "o", "r", "d", "s">>>>
    /\ obs.cmd = "help" /\ obs.gate = "return"

\* ------------------------------------------- claims: who changes settings
\* The value column col has for chat c in the table cs: a chat without a row
\* is served the defaults.
SettingOf(cs, c, col) == IF cs[c].exists THEN cs[c][col] ELSE DefaultRow[col]

\* C26: a step that changes a setting of a group chat handles an update whose
\* sender is the owner or was resolved as an administrator of the chat while
\* the update was handled.
C26_PrivilegedChange ==
    [][\A c \in Groups :
          (\E col \in Columns : SettingOf(chat_settings', c, col) # SettingOf(chat_settings, c, col))
              => (is_owner(obs'.user) \/ (obs'.check.made /\ obs'.check.res))
      ]_vars

\* -------------------------------------- claims: one verdict per message
\* C27: when both stages of the pipeline resolve the sender of one text
\* message, they reach the same verdict.
C27_OneVerdict ==
    (obs.kind = "text" /\ obs.check.made /\ obs.check2.made)
        => obs.check.res = obs.check2.res

====
